---- MODULE Spec2Model ----
(***************************************************************************)
(* The rfa archive: the spider (src/bin/spider.rs) that crawls one         *)
(* (site, month) unit at a time into three fjall partitions, and the key   *)
(* codec (src/lib.rs) that names the records.                              *)
(*                                                                         *)
(* Strings that the code takes apart (URLs, keys) are sequences of bytes;   *)
(* strings that it only compares whole (site names, done keys) are TLA+    *)
(* strings.                                                                *)
(***************************************************************************)
EXTENDS Integers, Sequences, FiniteSets, TLC

(***************************************************************************)
(* Bounds of the model.                                                    *)
(***************************************************************************)
\* months of the calendar each site is crawled for, counted from WinFirst
MaxMonths == 3
\* process runs (the first start and the restarts after a kill or an exit)
MaxRuns == 3
\* requests of one call that the history `fetched` records
MaxFetches == 5
\* articles that the source reports for a month and never serves
Shortfall == 130
\* the greatest page number a request asks for
MaxPage == 3
\* the articles of the greatest data folder the reader is started on
MaxShelf == 45
\* the articles of the gazette's first month
GazetteCount == 22

(***************************************************************************)
(* Program constants.                                                      *)
(***************************************************************************)
SIZE == 100
PAGE == 20
MarkerYear == 2024
SLASH == 47
QMARK == 63

\* The sites given with -w: a selection of SITE_LIST, in the order given.
SITES == <<"rfa-mandarin", "rfa-korean">>

\* The first month of the modelled stretch of the calendar that main walks.
WinFirst == <<2023, 11>>

\* The calendar that main walks: date(1998, 1, 1) to date(2025, 9, 30).
CalFirst == <<1998, 1>>
CalLast == <<2025, 9>>

(***************************************************************************)
(* Bytes and strings.                                                      *)
(***************************************************************************)
STR_mandarin == <<109, 97, 110, 100, 97, 114, 105, 110>>
STR_korean == <<107, 111, 114, 101, 97, 110>>
STR_english == <<101, 110, 103, 108, 105, 115, 104>>
STR_cantonese == <<99, 97, 110, 116, 111, 110, 101, 115, 101>>
STR_burmese == <<98, 117, 114, 109, 101, 115, 101>>
STR_lao == <<108, 97, 111>>
STR_khmer == <<107, 104, 109, 101, 114>>
STR_tibetan == <<116, 105, 98, 101, 116, 97, 110>>
STR_uyghur == <<117, 121, 103, 104, 117, 114>>
STR_vietnamese == <<118, 105, 101, 116, 110, 97, 109, 101, 115, 101>>

\* u8::to_ascii_lowercase as str::to_lowercase applies it to ASCII text
ToLowerByte(b) == IF b >= 65 /\ b <= 90 THEN b + 32 ELSE b

to_lowercase(s) == [i \in 1..Len(s) |-> ToLowerByte(s[i])]

\* str::trim_matches(c): drop every leading and trailing c
RECURSIVE TrimStart(_, _)
TrimStart(s, c) ==
    IF s # <<>> /\ Head(s) = c THEN TrimStart(Tail(s), c) ELSE s

RECURSIVE TrimEnd(_, _)
TrimEnd(s, c) ==
    IF s # <<>> /\ s[Len(s)] = c THEN TrimEnd(SubSeq(s, 1, Len(s) - 1), c) ELSE s

trim_matches(s, c) == TrimEnd(TrimStart(s, c), c)

\* positions of c in s
Positions(s, c) == {i \in 1..Len(s) : s[i] = c}

Min(S) == CHOOSE x \in S : \A y \in S : x <= y
Max(S) == CHOOSE x \in S : \A y \in S : x >= y

\* str::split_once(c): None when c does not occur, else (before, after) the
\* first occurrence
HasSplit(s, c) == Positions(s, c) # {}

\* split_once with the separator left at the head of the second part
split_once_keeps_separator(s, c) ==
    LET p == Min(Positions(s, c))
    IN  <<SubSeq(s, 1, p - 1), SubSeq(s, p, Len(s))>>

split_once(s, c) ==
    LET p == Min(Positions(s, c))
    IN  <<SubSeq(s, 1, p - 1), SubSeq(s, p + 1, Len(s))>>

(***************************************************************************)
(* lib.rs: the key codec.                                                  *)
(***************************************************************************)
site_code(website) ==
    LET w == to_lowercase(website)
    IN  CASE w = STR_english -> 0
          [] w = STR_mandarin -> 1
          [] w = STR_cantonese -> 2
          [] w = STR_burmese -> 3
          [] w = STR_korean -> 4
          [] w = STR_lao -> 5
          [] w = STR_khmer -> 6
          [] w = STR_tibetan -> 7
          [] w = STR_uyghur -> 8
          [] w = STR_vietnamese -> 9
          [] OTHER -> 99

\* the big-endian bytes of a non-negative number below 2^31, in n bytes
RECURSIVE BeBytes(_, _)
BeBytes(v, n) ==
    IF n = 0 THEN <<>> ELSE Append(BeBytes(v \div 256, n - 1), v % 256)

\* i64::to_be_bytes: the two's complement of a negative ts is the bitwise
\* complement of -ts - 1
to_be_bytes(ts) ==
    IF ts >= 0
    THEN BeBytes(ts, 8)
    ELSE [i \in 1..8 |-> 255 - BeBytes(-ts - 1, 8)[i]]

\* display_date.parse::<Timestamp>(): a display date of the model is what it
\* parses to, <<epoch seconds>>, or <<>> when the parse is an Err
DateParses(display_date) == display_date # <<>>

\* index_key runs to its end (neither unwrap panics)
index_key_ok(website_url, display_date) ==
    /\ HasSplit(trim_matches(website_url, SLASH), SLASH)
    /\ DateParses(display_date)

index_key(website_url, display_date) ==
    LET parts == split_once(trim_matches(website_url, SLASH), SLASH)
        code == site_code(parts[1])
        ts_byte == to_be_bytes(display_date[1])
    IN  <<code>> \o ts_byte \o parts[2]

\* the piece after the last '/', up to its first '?'
get_filename_from_url(url) ==
    LET ps == Positions(url, SLASH)
        last == IF ps = {} THEN url ELSE SubSeq(url, Max(ps) + 1, Len(url))
        qs == Positions(last, QMARK)
    IN  IF qs = {} THEN last ELSE SubSeq(last, 1, Min(qs) - 1)

(***************************************************************************)
(* The calendar of main's loop.                                            *)
(***************************************************************************)
\* Date::saturating_add(1.month()) on the first day of a month
MonthAfter(d) == IF d[2] = 12 THEN <<d[1] + 1, 1>> ELSE <<d[1], d[2] + 1>>

\* start_date <= end_date, both as <<year, month>>
\* start_date < end_date in place of start_date <= end_date
DateLT(a, b) == a[1] < b[1] \/ (a[1] = b[1] /\ a[2] < b[2])

DateLE(a, b) == a[1] < b[1] \/ (a[1] = b[1] /\ a[2] <= b[2])

RECURSIVE AddMonths(_, _)
AddMonths(d, n) == IF n = 0 THEN d ELSE AddMonths(MonthAfter(d), n - 1)

WinLast == AddMonths(WinFirst, MaxMonths - 1)

\* the months the while loop visits from d on: the first of every month that
\* is no later than last
MonthsFrom(d, last) ==
    {m \in {<<y, k>> : y \in d[1]..last[1], k \in 1..12} :
        DateLE(d, m) /\ DateLE(m, last)}

SiteSet == {SITES[i] : i \in 1..Len(SITES)}

\* the crawl units of a calendar: <<site, year, month>>
UnitsOf(first, last) ==
    {<<s, d[1], d[2]>> : s \in SiteSet, d \in MonthsFrom(first, last)}

\* format!("{site}-{year}-{month}")
done_key(site, year, month) ==
    site \o "-" \o ToString(year) \o "-" \o ToString(month)

(***************************************************************************)
(* The source API: what www.rfa.org answers.  A catalog gives every unit   *)
(* the articles of its month; a request at an offset is answered with the  *)
(* total count and the next SIZE of them.                                  *)
(***************************************************************************)
\* the decimal digits of a natural number, as bytes
RECURSIVE Digits(_)
Digits(n) == IF n < 10 THEN <<48 + n>> ELSE Append(Digits(n \div 10), 48 + (n % 10))

\* one element of content_elements, as far as the spider reads it:
\* websites[site].website_url, display_date, promo_items.basic.url (<<>> when
\* absent) and the content of the content_elements of type "image"
Article(url, date, promo, contents) ==
    [website_url |-> url, display_date |-> date,
     promo_url |-> promo, content_imgs |-> contents]

URL_a1 == <<104, 116, 116, 112, 58, 47, 47, 120, 47, 97, 46, 106, 112, 103, 63, 119, 61, 49>>
URL_a2 == <<104, 116, 116, 112, 58, 47, 47, 121, 47, 97, 46, 106, 112, 103>>
URL_b == <<105, 47, 98, 46, 106, 112, 103>>

\* the display date n seconds into 2023-11-01T00:00:00Z, parsed
DateAt(n) == <<1698796800 + n>>

\* the i-th article of the busy month of rfa-mandarin
BusyArticle(i) ==
    Article(<<47>> \o STR_mandarin \o <<47, 110>> \o Digits(i),
            DateAt(i),
            IF i = 1 THEN <<URL_a1>> ELSE <<>>,
            IF i = 2 THEN <<URL_a2, URL_b>> ELSE <<>>)

BusyCount == 250

Empty == [count |-> 0, elements |-> <<>>]

Listing(elements) == [count |-> Len(elements), elements |-> elements]

\* rfa-mandarin: a month of BusyCount articles, a month that holds the first
\* of them again under a later display date, and an empty month of 2024.
\* rfa-korean: a month of exactly SIZE articles, then empty months.
\* rfa-korean's first month: exactly one full page
FullPageMonth ==
    Listing([i \in 1..SIZE |->
                Article(<<47>> \o STR_korean \o <<47, 107>> \o Digits(i),
                        DateAt(7 * i), <<>>, <<>>)])

BusyMonth == Listing([i \in 1..BusyCount |-> BusyArticle(i)])

Archive(site, year, month) ==
    CASE <<site, year, month>> = <<"rfa-mandarin", 2023, 11>> -> BusyMonth
      [] <<site, year, month>> = <<"rfa-mandarin", 2023, 12>> ->
            Listing(<<Article(<<47>> \o STR_mandarin \o <<47, 110, 49, 47>>,
                              DateAt(2592000), <<URL_a1>>, <<>>),
                      Article(STR_mandarin \o <<47, 109, 49>>,
                              DateAt(2592001), <<>>, <<>>)>>)
      [] <<site, year, month>> = <<"rfa-korean", 2023, 11>> -> FullPageMonth
      [] OTHER -> Empty

\* The archive, but the one article of rfa-korean's last month of 2023 has a
\* display_date that does not parse.
Damaged(site, year, month) ==
    IF <<site, year, month>> = <<"rfa-korean", 2023, 12>>
    THEN Listing(<<Article(<<47>> \o STR_korean \o <<47, 107, 50>>,
                           <<>>, <<URL_b>>, <<>>)>>)
    ELSE Archive(site, year, month)

\* A source that reports the busy month's count and serves only the first
\* of its articles: the pages past them are empty.
StuckMonth ==
    [count |-> BusyCount,
     elements |-> SubSeq(BusyMonth.elements, 1, BusyCount - Shortfall)]

Stuck(site, year, month) ==
    IF <<site, year, month>> = <<"rfa-mandarin", 2023, 11>>
    THEN StuckMonth
    ELSE Archive(site, year, month)

\* A source that reports one article for the first month and serves none.
Hollow(site, year, month) ==
    IF <<site, year, month>> = <<"rfa-mandarin", 2023, 11>>
    THEN [count |-> 1, elements |-> <<>>]
    ELSE Archive(site, year, month)

\* A small archive: rfa-mandarin's first month holds GazetteCount articles,
\* its second the first of them again under a later display date and a new
\* one; rfa-korean's first month holds two.
Gazette(site, year, month) ==
    CASE <<site, year, month>> = <<"rfa-mandarin", 2023, 11>> ->
            Listing([i \in 1..GazetteCount |->
                        Article(<<SLASH>> \o STR_mandarin \o <<SLASH, 110>> \o Digits(i),
                                DateAt(i), <<>>, <<>>)])
      [] <<site, year, month>> = <<"rfa-mandarin", 2023, 12>> ->
            Listing(<<Article(<<SLASH>> \o STR_mandarin \o <<SLASH, 110, 49, SLASH>>,
                              DateAt(2592000), <<>>, <<>>),
                      Article(STR_mandarin \o <<SLASH, 109, 49>>,
                              DateAt(2592001), <<>>, <<>>)>>)
      [] <<site, year, month>> = <<"rfa-korean", 2023, 11>> ->
            Listing([i \in 1..2 |->
                        Article(<<SLASH>> \o STR_korean \o <<SLASH, 107>> \o Digits(i),
                                DateAt(i), <<>>, <<>>)])
      [] OTHER -> Empty

\* the JSON the API answers a request at an offset with
Response(listing, offset) ==
    [count |-> listing.count,
     content_elements |->
        SubSeq(listing.elements, offset + 1,
               IF offset + SIZE < Len(listing.elements)
               THEN offset + SIZE ELSE Len(listing.elements))]

(***************************************************************************)
(* spider.rs: extract.                                                     *)
(***************************************************************************)
\* the image URLs of the elements, element by element in their order: of
\* each its promo image, then the images of its content; computed by halves
RECURSIVE ImgsOf(_)
ImgsOf(elements) ==
    IF elements = <<>> THEN <<>>
    ELSE IF Len(elements) = 1
         THEN elements[1].promo_url \o elements[1].content_imgs
         ELSE LET half == Len(elements) \div 2
              IN  ImgsOf(SubSeq(elements, 1, half))
                    \o ImgsOf(SubSeq(elements, half + 1, Len(elements)))

extract(json) ==
    [items |-> json.content_elements, imgs |-> ImgsOf(json.content_elements)]

(***************************************************************************)
(* The state.                                                              *)
(***************************************************************************)
VARIABLES
    db,          \* partition "rfa": canonical path -> the article stored
    index,       \* partition "index": its keys (every value is empty)
    done,        \* partition "done": its keys (every value is empty)
    files,       \* the names of the files of imgs/
    catalog,     \* which catalog the source API serves
    cal,         \* <<first, last>>: the months main walks for every site
    today,       \* the calendar year the crawl runs in
    pc,          \* where the process is
    site_i,      \* main: the position of `site` in SITES
    start_date,  \* main: start_date, as <<year, month>>
    count,       \* fetch_articles: count
    items,       \* fetch_articles: items
    imgs,        \* fetch_articles: the images the for loop has yet to visit
    runs,        \* process starts so far
    fetched,     \* history: the offsets the current call has requested
    img_errs,    \* history: the image downloads of the current call that failed
    commits,     \* history: the units whose batch committed, once per commit
    returned,    \* history: the units whose call has returned Ok(())
    called,      \* history: the units this run has called fetch_articles for
    img_gets,    \* history: the images the current call has requested, each
                 \* with how dl_obj ended
    rpc,         \* web.rs: where the handler of the request in hand is
    req,         \* web.rs: the request in hand
    scan,        \* web.rs: what the iterator of the handler has yet to yield
    resp,        \* web.rs: items, the records pushed so far
    arg,         \* lib.rs: the arguments a caller has in hand
    out          \* lib.rs: what the calls made with them returned

vars == <<db, index, done, files, catalog, cal, today, pc, site_i, start_date,
          count, items, imgs, runs, fetched, img_errs, commits, returned,
          called, img_gets, rpc, req, scan, resp, arg, out>>

store == <<db, index, done>>
env == <<catalog, cal, today>>
spider == <<db, index, done, files, catalog, cal, today, pc, site_i, start_date,
            count, items, imgs, runs, fetched, img_errs, commits, returned,
            called, img_gets>>
web == <<rpc, req, scan, resp>>
lib == <<arg, out>>

Source(site, year, month) ==
    CASE catalog = "archive" -> Archive(site, year, month)
      [] catalog = "damaged" -> Damaged(site, year, month)
      [] catalog = "stuck" -> Stuck(site, year, month)
      [] catalog = "hollow" -> Hollow(site, year, month)
      [] catalog = "gazette" -> Gazette(site, year, month)
      [] OTHER -> Empty

site == SITES[site_i]
year == start_date[1]
month == start_date[2]
Unit == <<site, year, month>>

Running == {"call", "page", "imgs", "mark", "ret"}
Stopped == {"exit_ok", "exit_err", "killed", "panic"}

EmptyMap == [k \in {} |-> {}]

\* Batch::insert and PartitionHandle::insert: the last write to a key wins
Put(map, k, v) == [x \in DOMAIN map \cup {k} |-> IF x = k THEN v ELSE map[x]]

(***************************************************************************)
(* spider.rs: fetch_articles.                                              *)
(***************************************************************************)
\* the marker looked up where it is never written
MarkerNeverFound(s, y, m) == FALSE

\* lines 141-142: done.contains_key(&done_key)
MarkerExists(s, y, m) == done_key(s, y, m) \in done

\* the number of the page in place of the number of records
NextOffsetInPages(its) == Len(its) \div SIZE

\* line 165: the offset of the next request
NextOffset(its) == Len(its)

\* lines 150 and 166: the history of a call's requests with one more
Requested(f, offset) == IF Len(f) < MaxFetches THEN Append(f, offset) ELSE f

\* no empty month gets a marker
MarkerNeverWanted(y) == FALSE

\* line 156: an empty month gets its marker
MarkerWanted(y) == y < MarkerYear

\* the comparison of line 164 the wrong way round
MorePagesReversed(c, n) == c < n

\* the loop also ends at a page that is not full
MorePagesWhileFull(c, n) == c > n /\ n % SIZE = 0

\* line 164: the condition of the pagination loop
MorePages(c, n) == c > n

\* lines 193-197: the key of a record in "rfa"
CanonicalPath(item) == trim_matches(item.website_url, SLASH)

\* lines 192-205: every item's index_key call runs to its end
BatchBuilds(its) ==
    {i \in 1..Len(its) :
        ~index_key_ok(CanonicalPath(its[i]), its[i].display_date)} = {}

\* lines 192-206 on "rfa": the items are inserted in order, so of the items
\* of one path the last is the one stored; the batch commits as a whole
BatchDb(map, its) ==
    LET path == [i \in 1..Len(its) |-> CanonicalPath(its[i])]
        keys == {path[i] : i \in 1..Len(its)}
    IN  [k \in DOMAIN map \cup keys |->
            IF k \in keys
            THEN its[Max({i \in 1..Len(its) : path[i] = k})]
            ELSE map[k]]

\* lines 192-206 on "index"
BatchIndex(keys, its) ==
    keys \cup {index_key(CanonicalPath(its[i]), its[i].display_date) :
                    i \in 1..Len(its)}

\* the existence check left out: every image is fetched
PathNeverExists(name) == FALSE

\* line 180: Path::new("imgs/<name>").exists(); an empty name joins to imgs/
PathExists(name) == name = <<>> \/ name \in files

Forget ==
    /\ count' = 0
    /\ items' = <<>>
    /\ imgs' = <<>>

\* lines 141-145: the marker is there
AlreadyDone ==
    /\ pc = "call"
    /\ called' = Append(called, Unit)
    /\ MarkerExists(site, year, month)
    /\ pc' = "ret"
    /\ fetched' = <<>>
    /\ img_errs' = 0
    /\ img_gets' = <<>>
    /\ returned' = returned \cup {Unit}
    /\ UNCHANGED <<store, files, env, web, lib, site_i, start_date, count, items, imgs,
                   runs, commits>>

\* lines 147-162: the first request is answered
FirstPage ==
    /\ pc = "call"
    /\ called' = Append(called, Unit)
    /\ ~MarkerExists(site, year, month)
    /\ LET json == Response(Source(site, year, month), 0)
       IN  /\ fetched' = <<0>>
           /\ img_errs' = 0
           /\ img_gets' = <<>>
           /\ count' = json.count
           /\ IF json.count = 0
              THEN /\ done' = IF MarkerWanted(year)
                              THEN done \cup {done_key(site, year, month)}
                              ELSE done
                   /\ pc' = "ret"
                   /\ returned' = returned \cup {Unit}
                   /\ UNCHANGED <<items, imgs>>
              ELSE /\ items' = extract(json).items
                   /\ imgs' = extract(json).imgs
                   /\ pc' = IF MorePages(json.count, Len(extract(json).items))
                            THEN "page" ELSE "imgs"
                   /\ UNCHANGED <<done, returned>>
    /\ UNCHANGED <<db, index, files, env, web, lib, site_i, start_date, runs, commits>>

\* line 150: req_story_archive is an Err, which main returns
FirstPageFails ==
    /\ pc = "call"
    /\ called' = Append(called, Unit)
    /\ ~MarkerExists(site, year, month)
    /\ pc' = "exit_err"
    /\ fetched' = <<0>>
    /\ img_errs' = 0
    /\ img_gets' = <<>>
    /\ Forget
    /\ UNCHANGED <<store, files, env, web, lib, site_i, start_date, runs, commits, returned>>

\* lines 164-171: one more round of the pagination loop
NextPage ==
    /\ pc = "page"
    /\ LET offset == NextOffset(items)
           json == Response(Source(site, year, month), offset)
       IN  /\ fetched' = Requested(fetched, offset)
           /\ items' = items \o extract(json).items
           /\ imgs' = imgs \o extract(json).imgs
           /\ pc' = IF MorePages(count, Len(items) + Len(extract(json).items))
                    THEN "page" ELSE "imgs"
    /\ UNCHANGED <<store, files, env, web, lib, site_i, start_date, count, runs, called, img_errs, img_gets,
                   commits, returned>>

\* the pages fetched so far are committed before the Err is returned
NextPageFailsAfterFlush ==
    /\ pc = "page"
    /\ pc' = "exit_err"
    /\ fetched' = Requested(fetched, NextOffset(items))
    /\ db' = BatchDb(db, items)
    /\ index' = BatchIndex(index, items)
    /\ Forget
    /\ UNCHANGED <<done, files, env, web, lib, site_i, start_date, runs, called, img_errs, img_gets,
                   commits, returned>>

\* line 166: req_story_archive is an Err
NextPageFails ==
    /\ pc = "page"
    /\ pc' = "exit_err"
    /\ fetched' = Requested(fetched, NextOffset(items))
    /\ Forget
    /\ UNCHANGED <<store, files, env, web, lib, site_i, start_date, runs, called, img_errs, img_gets,
                   commits, returned>>

\* lines 186-188: the file is there
ImageExists ==
    /\ pc = "imgs"
    /\ imgs # <<>>
    /\ PathExists(get_filename_from_url(Head(imgs)))
    /\ imgs' = Tail(imgs)
    /\ UNCHANGED <<store, files, env, web, lib, pc, site_i, start_date, count, items, runs, called,
                   fetched, img_errs, img_gets, commits, returned>>

\* lines 181, 184 and dl_obj: the bytes arrive and are written
ImageDownloaded ==
    /\ pc = "imgs"
    /\ imgs # <<>>
    /\ ~PathExists(get_filename_from_url(Head(imgs)))
    /\ files' = files \cup {get_filename_from_url(Head(imgs))}
    /\ imgs' = Tail(imgs)
    /\ img_gets' = Append(img_gets, <<Head(imgs), "ok">>)
    /\ UNCHANGED <<store, env, web, lib, pc, site_i, start_date, count, items, runs, called,
                   fetched, img_errs, commits, returned>>

\* the Err of dl_obj is returned with `?`
ImageFailsAborts ==
    /\ pc = "imgs"
    /\ imgs # <<>>
    /\ ~PathExists(get_filename_from_url(Head(imgs)))
    /\ pc' = "exit_err"
    /\ img_errs' = img_errs + 1
    /\ img_gets' = Append(img_gets, <<Head(imgs), "err">>)
    /\ Forget
    /\ UNCHANGED <<store, files, env, web, lib, site_i, start_date, runs, called, fetched,
                   commits, returned>>

\* lines 181-182 and dl_obj: the request or the body is an Err, which is logged
ImageFails ==
    /\ pc = "imgs"
    /\ imgs # <<>>
    /\ ~PathExists(get_filename_from_url(Head(imgs)))
    /\ imgs' = Tail(imgs)
    /\ img_errs' = img_errs + 1
    /\ img_gets' = Append(img_gets, <<Head(imgs), "err">>)
    /\ UNCHANGED <<store, files, env, web, lib, pc, site_i, start_date, count, items, runs, called,
                   fetched, commits, returned>>

\* line 254: std::fs::write is an Err and unwrap panics
ImageWritePanics ==
    /\ pc = "imgs"
    /\ imgs # <<>>
    /\ ~PathExists(get_filename_from_url(Head(imgs)))
    /\ pc' = "panic"
    /\ img_gets' = Append(img_gets, <<Head(imgs), "panic">>)
    /\ Forget
    /\ UNCHANGED <<store, files, env, web, lib, site_i, start_date, runs, called, fetched, img_errs,
                   commits, returned>>

\* the index entries of the batch become visible without its records
CommitIndexOnly ==
    /\ pc = "imgs"
    /\ imgs = <<>>
    /\ BatchBuilds(items)
    /\ index' = BatchIndex(index, items)
    /\ commits' = [commits EXCEPT ![Unit] = @ + 1]
    /\ pc' = "mark"
    /\ UNCHANGED <<db, done, files, env, web, lib, site_i, start_date, count, items,
                   imgs, runs, called, fetched, img_errs, img_gets, returned>>

\* lines 191-206: the batch is built and commits
Commit ==
    /\ pc = "imgs"
    /\ imgs = <<>>
    /\ BatchBuilds(items)
    /\ db' = BatchDb(db, items)
    /\ index' = BatchIndex(index, items)
    /\ commits' = [commits EXCEPT ![Unit] = @ + 1]
    /\ pc' = "mark"
    /\ UNCHANGED <<done, files, env, web, lib, site_i, start_date, count, items, imgs, runs, called,
                   fetched, img_errs, img_gets, returned>>

\* lines 193-202: an unwrap panics while the batch is built
BatchPanics ==
    /\ pc = "imgs"
    /\ imgs = <<>>
    /\ ~BatchBuilds(items)
    /\ pc' = "panic"
    /\ Forget
    /\ UNCHANGED <<store, files, env, web, lib, site_i, start_date, runs, called, fetched, img_errs, img_gets,
                   commits, returned>>

\* the Err of commit is dropped and the function goes on to the marker
CommitFailsIgnored ==
    /\ pc = "imgs"
    /\ imgs = <<>>
    /\ BatchBuilds(items)
    /\ pc' = "mark"
    /\ UNCHANGED <<store, files, env, web, lib, site_i, start_date, count, items, imgs, runs, called,
                   fetched, img_errs, img_gets, commits, returned>>

\* line 206: commit is an Err and unwrap panics; nothing of the batch is written
CommitFails ==
    /\ pc = "imgs"
    /\ imgs = <<>>
    /\ BatchBuilds(items)
    /\ pc' = "panic"
    /\ Forget
    /\ UNCHANGED <<store, files, env, web, lib, site_i, start_date, runs, called, fetched, img_errs, img_gets,
                   commits, returned>>

\* lines 208-210: the marker is written and the call returns
Mark ==
    /\ pc = "mark"
    /\ done' = done \cup {done_key(site, year, month)}
    /\ pc' = "ret"
    /\ returned' = returned \cup {Unit}
    /\ UNCHANGED <<db, index, files, env, web, lib, site_i, start_date, count, items, imgs,
                   runs, called, fetched, img_errs, img_gets, commits>>

(***************************************************************************)
(* spider.rs: main, and the process.                                       *)
(***************************************************************************)
\* main drops the Err of a call and goes on as after an Ok
AdvanceAnyway ==
    /\ pc \in {"ret", "exit_err"}
    /\ Forget
    /\ IF DateLE(MonthAfter(start_date), cal[2])
       THEN /\ start_date' = MonthAfter(start_date)
            /\ pc' = "call"
            /\ UNCHANGED site_i
       ELSE IF site_i < Len(SITES)
       THEN /\ site_i' = site_i + 1
            /\ start_date' = cal[1]
            /\ pc' = "call"
       ELSE /\ pc' = "exit_ok"
            /\ UNCHANGED <<site_i, start_date>>
    /\ fetched' = <<>>
    /\ img_errs' = 0
    /\ img_gets' = <<>>
    /\ UNCHANGED <<store, files, env, web, lib, runs, called, commits, returned>>

\* lines 108-128: the call has returned Ok; the next month, the next site,
\* or the end
Advance ==
    /\ pc = "ret"
    /\ Forget
    /\ IF DateLE(MonthAfter(start_date), cal[2])
       THEN /\ start_date' = MonthAfter(start_date)
            /\ pc' = "call"
            /\ UNCHANGED site_i
       ELSE IF site_i < Len(SITES)
       THEN /\ site_i' = site_i + 1
            /\ start_date' = cal[1]
            /\ pc' = "call"
       ELSE /\ pc' = "exit_ok"
            /\ UNCHANGED <<site_i, start_date>>
    /\ fetched' = <<>>
    /\ img_errs' = 0
    /\ img_gets' = <<>>
    /\ UNCHANGED <<store, files, env, web, lib, runs, called, commits, returned>>

\* the process is killed from outside
Kill ==
    /\ pc \in Running
    /\ pc' = "killed"
    /\ Forget
    /\ UNCHANGED <<store, files, env, web, lib, site_i, start_date, runs, called, fetched, img_errs, img_gets,
                   commits, returned>>

\* the spider is started again on the same output directory
Restart ==
    /\ pc \in Stopped
    /\ runs < MaxRuns
    /\ runs' = runs + 1
    /\ pc' = "call"
    /\ called' = <<>>
    /\ site_i' = 1
    /\ start_date' = cal[1]
    /\ fetched' = <<>>
    /\ img_errs' = 0
    /\ img_gets' = <<>>
    /\ Forget
    /\ UNCHANGED <<store, files, env, web, lib, commits, returned>>

ClockYears == {MarkerYear, MarkerYear + 1}

\* no request is in hand
NoReq == [handler |-> "none", key |-> <<>>, page |-> 0]

WebIdle ==
    /\ rpc = "idle"
    /\ req = NoReq
    /\ scan = <<>>
    /\ resp = <<>>

\* no caller of the codec is at work
NoArg == [fn |-> "none", calls |-> <<>>]

LibIdle ==
    /\ arg = NoArg
    /\ out = <<>>

\* a process that starts on an empty output directory, to walk the months
\* first..last
StartOn(first, last) ==
    /\ db = EmptyMap
    /\ index = {}
    /\ files = {}
    /\ cal = <<first, last>>
    /\ pc = "call"
    /\ site_i = 1
    /\ start_date = first
    /\ count = 0
    /\ items = <<>>
    /\ imgs = <<>>
    /\ runs = 1
    /\ fetched = <<>>
    /\ img_errs = 0
    /\ commits = [u \in UnitsOf(first, last) |-> 0]
    /\ returned = {}
    /\ called = <<>>
    /\ img_gets = <<>>

Init ==
    /\ StartOn(WinFirst, WinLast)
    /\ done = {}
    /\ catalog \in {"archive", "damaged"}
    /\ today \in ClockYears
    /\ WebIdle
    /\ LibIdle

Next ==
    \/ AlreadyDone
    \/ FirstPage
    \/ FirstPageFails
    \/ NextPage
    \/ NextPageFails
    \/ ImageExists
    \/ ImageDownloaded
    \/ ImageFails
    \/ ImageWritePanics
    \/ Commit
    \/ BatchPanics
    \/ CommitFails
    \/ Mark
    \/ Advance
    \/ Kill
    \/ Restart

Spec == Init /\ [][Next]_vars

(***************************************************************************)
(* Runs in which no request fails and nothing stops the process.           *)
(***************************************************************************)
\* the steps of such a run on an empty output directory
LiveNext ==
    \/ FirstPage
    \/ NextPage
    \/ ImageExists
    \/ ImageDownloaded
    \/ ImageFails
    \/ Commit
    \/ Mark
    \/ Advance

\* the steps of such a run on any output directory
RunNext ==
    \/ AlreadyDone
    \/ LiveNext

\* the marker a run leaves that was stopped after its first unit
FirstUnitDone == {done_key(SITES[1], CalFirst[1], CalFirst[2])}

\* over the whole calendar
RunInit ==
    /\ StartOn(CalFirst, CalLast)
    /\ done \in {{}, FirstUnitDone}
    /\ catalog = "archive"
    /\ today \in ClockYears
    /\ WebIdle
    /\ LibIdle

RunSpec == RunInit /\ [][RunNext]_vars

\* over the window, against sources that may stop short of their count; the
\* process takes every step it can
LiveInit ==
    /\ StartOn(WinFirst, WinLast)
    /\ done = {}
    /\ catalog \in {"archive", "stuck", "hollow"}
    /\ today \in ClockYears
    /\ WebIdle
    /\ LibIdle

\* the process runs on: a pagination loop that has a round to make makes it
LiveSpec == LiveInit /\ [][LiveNext]_vars /\ WF_vars(NextPage)

(***************************************************************************)
(* web.rs: the reader.                                                     *)
(***************************************************************************)
\* the order of the keys of a partition: byte by byte, a prefix before what
\* it is a prefix of
LexLess(a, b) ==
    LET n == IF Len(a) < Len(b) THEN Len(a) ELSE Len(b)
        d == {i \in 1..n : a[i] # b[i]}
    IN  IF d = {} THEN Len(a) < Len(b) ELSE a[Min(d)] < b[Min(d)]

StartsWith(k, p) == Len(k) >= Len(p) /\ SubSeq(k, 1, Len(p)) = p

\* Iterator::rev() over a partition's keys: the greatest first
RECURSIVE Descending(_)
Descending(keys) ==
    IF keys = {} THEN <<>>
    ELSE LET top == CHOOSE k \in keys : \A k2 \in keys : ~LexLess(k, k2)
         IN  <<top>> \o Descending(keys \ {top})

\* PartitionHandle::prefix(p).rev(), over the partition as it is when the
\* loop begins
prefix_rev(keys, p) == Descending({k \in keys : StartsWith(k, p)})

\* the page number taken for the number of entries to skip
WindowFromPage(entries, page) ==
    SubSeq(entries, page + 1, Min({Len(entries), page + PAGE}))

\* enumerate(), `idx < n => continue`, `idx >= n + 20 => break`
Window(entries, page) ==
    LET n == page * PAGE
    IN  SubSeq(entries, n + 1, Min({Len(entries), n + PAGE}))

\* String::from_utf8_lossy on the bytes of the model, which are ASCII or a
\* byte that no UTF-8 text holds: such a byte becomes U+FFFD
RECURSIVE from_utf8_lossy(_)
from_utf8_lossy(bytes) ==
    IF bytes = <<>> THEN <<>>
    ELSE (IF Head(bytes) < 128 THEN <<Head(bytes)>> ELSE <<239, 191, 189>>)
            \o from_utf8_lossy(Tail(bytes))

\* rest taken as the key past the site code
ReaderPathPastCode(name, k) ==
    name \o <<SLASH>> \o from_utf8_lossy(SubSeq(k, 2, Len(k)))

\* lines 222-223: format!("{site}/{rest}") with rest the key past 9 bytes
ReaderPath(name, k) ==
    name \o <<SLASH>> \o from_utf8_lossy(SubSeq(k, 10, Len(k)))

\* site, run to its end on the store as it is: PageList.items
site_items(name, page) ==
    LET w == Window(prefix_rev(index, <<site_code(name)>>), page)
        hit == {i \in 1..Len(w) : ReaderPath(name, w[i]) \in DOMAIN db}
        nth(j) == CHOOSE i \in hit : Cardinality({h \in hit : h < i}) = j - 1
    IN  [j \in 1..Cardinality(hit) |-> db[ReaderPath(name, w[nth(j)])]]

\* the {site} of the requests
SiteParams == {STR_mandarin, STR_korean}

\* lines 202-213: a request for /{site}?page=p arrives and the loop begins
SiteRequest ==
    /\ rpc = "idle"
    /\ \E name \in SiteParams, p \in 0..MaxPage :
          /\ req' = [handler |-> "site", key |-> name, page |-> p]
          /\ scan' = Window(prefix_rev(index, <<site_code(name)>>), p)
    /\ resp' = <<>>
    /\ rpc' = "site"
    /\ UNCHANGED <<spider, lib>>

\* the first miss of db.get is unwrapped
SiteGetUnwraps ==
    /\ rpc = "site"
    /\ scan # <<>>
    /\ IF ReaderPath(req.key, Head(scan)) \in DOMAIN db
       THEN /\ resp' = Append(resp, db[ReaderPath(req.key, Head(scan))])
            /\ scan' = Tail(scan)
            /\ rpc' = rpc
       ELSE /\ rpc' = "panic"
            /\ UNCHANGED <<scan, resp>>
    /\ UNCHANGED <<spider, lib, req>>

\* lines 214-229: one round of the loop
SiteGet ==
    /\ rpc = "site"
    /\ scan # <<>>
    /\ resp' = IF ReaderPath(req.key, Head(scan)) \in DOMAIN db
               THEN Append(resp, db[ReaderPath(req.key, Head(scan))])
               ELSE resp
    /\ scan' = Tail(scan)
    /\ UNCHANGED <<spider, lib, rpc, req>>

\* lines 231-238: the loop is over and the PageList is the response
SiteRespond ==
    /\ rpc = "site"
    /\ scan = <<>>
    /\ rpc' = "list"
    /\ UNCHANGED <<spider, lib, req, scan, resp>>

\* the response has gone out and the handler's locals are dropped
Served ==
    /\ rpc \in {"list", "article", "not_found"}
    /\ rpc' = "idle"
    /\ req' = NoReq
    /\ scan' = <<>>
    /\ resp' = <<>>
    /\ UNCHANGED <<spider, lib>>

STR_news == <<110, 101, 119, 115>>
STR_sport == <<115, 112, 111, 114, 116>>

\* the paths of the requests to /{site}/{*id}
PageParams ==
    {<<SLASH>> \o STR_mandarin \o <<SLASH>> \o STR_news,
     <<SLASH>> \o STR_mandarin \o <<SLASH>> \o STR_news \o <<SLASH, 110, 49>>,
     <<SLASH>> \o STR_mandarin \o <<SLASH>> \o STR_sport \o <<SLASH>>,
     <<SLASH>> \o STR_mandarin \o <<SLASH>> \o STR_sport \o <<SLASH, 110, 51>>,
     <<SLASH>> \o STR_korean \o <<SLASH, 107>>,
     <<SLASH>> \o STR_mandarin \o <<SLASH, SLASH>>}

\* the request's URI: the path, and the page when it is not the first
original_uri(path, p) ==
    IF p = 0 THEN path
    ELSE path \o <<QMARK, 112, 97, 103, 101, 61>> \o Digits(p)

\* line 78: original_uri.split("?").next().unwrap().trim_matches('/')
PageKey(uri) ==
    LET qs == Positions(uri, QMARK)
    IN  trim_matches(IF qs = {} THEN uri ELSE SubSeq(uri, 1, Min(qs) - 1), SLASH)

\* lines 80-84: the key is that of a record
PageArticle ==
    /\ rpc = "idle"
    /\ \E path \in PageParams, p \in 0..MaxPage :
          LET key == PageKey(original_uri(path, p))
          IN  /\ key \in DOMAIN db
              /\ req' = [handler |-> "page", key |-> key, page |-> p]
              /\ resp' = <<db[key]>>
    /\ scan' = <<>>
    /\ rpc' = "article"
    /\ UNCHANGED <<spider, lib>>

\* the prefix scan without the point lookup before it
PageSectionFirst ==
    /\ rpc = "idle"
    /\ \E path \in PageParams, p \in 0..MaxPage :
          LET key == PageKey(original_uri(path, p))
              w == Window(prefix_rev(DOMAIN db, key), p)
          IN  /\ HasSplit(key, SLASH)
              /\ req' = [handler |-> "page", key |-> key, page |-> p]
              /\ resp' = [i \in 1..Len(w) |-> db[w[i]]]
    /\ scan' = <<>>
    /\ rpc' = "list"
    /\ UNCHANGED <<spider, lib>>

\* lines 86-109: no such record; the records whose keys begin with the key
PageSection ==
    /\ rpc = "idle"
    /\ \E path \in PageParams, p \in 0..MaxPage :
          LET key == PageKey(original_uri(path, p))
              w == Window(prefix_rev(DOMAIN db, key), p)
          IN  /\ key \notin DOMAIN db
              /\ HasSplit(key, SLASH)
              /\ req' = [handler |-> "page", key |-> key, page |-> p]
              /\ resp' = [i \in 1..Len(w) |-> db[w[i]]]
    /\ scan' = <<>>
    /\ rpc' = "list"
    /\ UNCHANGED <<spider, lib>>

\* lines 110-113: no such record and no '/' in the key
PageNotFound ==
    /\ rpc = "idle"
    /\ \E path \in PageParams, p \in 0..MaxPage :
          LET key == PageKey(original_uri(path, p))
          IN  /\ key \notin DOMAIN db
              /\ ~HasSplit(key, SLASH)
              /\ req' = [handler |-> "page", key |-> key, page |-> p]
    /\ resp' = <<>>
    /\ scan' = <<>>
    /\ rpc' = "not_found"
    /\ UNCHANGED <<spider, lib>>

(***************************************************************************)
(* The reader on a data folder that no spider is writing to.               *)
(***************************************************************************)
\* the i-th article of rfa-mandarin on the shelf: news and sport in turn,
\* the display dates in no order
ShelfArticle(i) ==
    Article(<<SLASH>> \o STR_mandarin \o <<SLASH>>
                \o (IF i % 2 = 1 THEN STR_news ELSE STR_sport)
                \o <<SLASH, 110>> \o Digits(i),
            DateAt((i * 17) % 47), <<>>, <<>>)

\* three articles of rfa-korean
ShelfKorean ==
    [i \in 1..3 |->
        Article(<<SLASH>> \o STR_korean \o <<SLASH, 107>> \o Digits(i),
                DateAt(i), <<>>, <<>>)]

\* an index key of rfa-mandarin whose path suffix is not UTF-8
StrayKey == <<1>> \o to_be_bytes(DateAt(PAGE)[1]) \o <<110, 255>>

\* what batches of n articles of rfa-mandarin and of three of rfa-korean
\* leave; a damaged folder has lost every 13th record from the 3rd on, and
\* holds the stray key
ShelfOf(n, damaged) ==
    LET its == [i \in 1..n |-> ShelfArticle(i)] \o ShelfKorean
        whole == BatchDb(EmptyMap, its)
        lost == IF damaged
                THEN {CanonicalPath(ShelfArticle(i)) : i \in {j \in 1..n : j % 13 = 3}}
                ELSE {}
    IN  [db |-> [k \in DOMAIN whole \ lost |-> whole[k]],
         index |-> BatchIndex(IF damaged THEN {StrayKey} ELSE {}, its)]

Shelves == {ShelfOf(n, damaged) : n \in 0..MaxShelf, damaged \in BOOLEAN}

\* no spider is at work
NoSpider ==
    /\ done = {}
    /\ files = {}
    /\ catalog = "archive"
    /\ cal = <<WinFirst, WinLast>>
    /\ today = MarkerYear
    /\ pc = "exit_ok"
    /\ site_i = Len(SITES)
    /\ start_date = WinLast
    /\ count = 0
    /\ items = <<>>
    /\ imgs = <<>>
    /\ runs = 1
    /\ fetched = <<>>
    /\ img_errs = 0
    /\ commits = [u \in UnitsOf(WinFirst, WinLast) |-> 0]
    /\ returned = {}
    /\ called = <<>>
    /\ img_gets = <<>>

ReadInit ==
    /\ \E shelf \in Shelves :
          /\ db = shelf.db
          /\ index = shelf.index
    /\ NoSpider
    /\ WebIdle
    /\ LibIdle

ReadNext ==
    \/ SiteRequest
    \/ SiteGet
    \/ SiteRespond
    \/ PageArticle
    \/ PageSection
    \/ PageNotFound
    \/ Served

ReadSpec == ReadInit /\ [][ReadNext]_vars

(***************************************************************************)
(* lib.rs: the codec at work for a caller.                                 *)
(***************************************************************************)
\* website_url arguments of index_key
KeyUrls ==
    {<<47, 109, 97, 110, 100, 97, 114, 105, 110, 47, 97>>,
     <<109, 97, 110, 100, 97, 114, 105, 110, 47, 98, 47>>,
     <<47, 77, 97, 110, 100, 97, 114, 105, 110, 47, 122, 122>>,
     <<47, 107, 111, 114, 101, 97, 110, 47, 97>>}

\* display_date arguments of index_key, as the epoch seconds they parse to:
\* before, at and after 1970-01-01T00:00:00Z
KeyTimes == {-86400, -1, 0, 1, 255, 256, 65536, 1698796800}

KeyArgs == {<<url, <<ts>>>> : url \in KeyUrls, ts \in KeyTimes}

\* url arguments of get_filename_from_url
UrlArgs ==
    {<<104, 116, 116, 112, 115, 58, 47, 47, 120, 46, 111, 114, 103, 47, 97, 47, 98, 47, 99, 46, 106, 112, 103, 63, 119, 61, 49, 48>>,
     <<104, 116, 116, 112, 115, 58, 47, 47, 120, 46, 111, 114, 103, 47, 97, 47, 98, 47, 99, 46, 106, 112, 103>>,
     <<104, 116, 116, 112, 58, 47, 47, 120, 47, 97, 46, 106, 112, 103, 63, 117, 61, 104, 116, 116, 112, 58, 47, 47, 121, 47, 122, 46, 112, 110, 103>>,
     <<104, 116, 116, 112, 58, 47, 47, 120, 47, 97, 46, 106, 112, 103, 63, 119, 61, 49, 63, 104, 61, 50>>,
     <<105, 47, 98, 46, 106, 112, 103>>,
     <<104, 116, 116, 112, 115, 58, 47, 47, 120, 46, 111, 114, 103, 47, 100, 105, 114, 47>>,
     <<112, 108, 97, 105, 110, 46, 106, 112, 103>>}

\* what a caller has in hand: two calls of index_key, or one of
\* get_filename_from_url
CodecArgs ==
    {[fn |-> "index_key", calls |-> <<a, b>>] : a, b \in KeyArgs}
        \cup {[fn |-> "get_filename_from_url", calls |-> <<u>>] : u \in UrlArgs}

CodecInit ==
    /\ db = EmptyMap
    /\ index = {}
    /\ NoSpider
    /\ WebIdle
    /\ arg \in CodecArgs
    /\ out = <<>>

\* the caller's next call of index_key returns
Call_index_key ==
    /\ arg.fn = "index_key"
    /\ Len(out) < Len(arg.calls)
    /\ LET c == arg.calls[Len(out) + 1]
       IN  /\ index_key_ok(c[1], c[2])
           /\ out' = Append(out, index_key(c[1], c[2]))
    /\ UNCHANGED <<spider, web, arg>>

\* the caller's call of get_filename_from_url returns
Call_get_filename_from_url ==
    /\ arg.fn = "get_filename_from_url"
    /\ Len(out) < Len(arg.calls)
    /\ out' = Append(out, get_filename_from_url(arg.calls[Len(out) + 1]))
    /\ UNCHANGED <<spider, web, arg>>

CodecNext ==
    \/ Call_index_key
    \/ Call_get_filename_from_url

CodecSpec == CodecInit /\ [][CodecNext]_vars

(***************************************************************************)
(* The reader at work while the spider fills the data folder.              *)
(***************************************************************************)
ServeInit ==
    /\ StartOn(WinFirst, WinLast)
    /\ done = {}
    /\ catalog = "gazette"
    /\ today \in ClockYears
    /\ WebIdle
    /\ LibIdle

\* the steps of the spider on the gazette, which has no month of several
\* pages and no image, and those of the handler of /{site}
ServeNext ==
    \/ FirstPage
    \/ Commit
    \/ Mark
    \/ Advance
    \/ SiteRequest
    \/ SiteGet
    \/ SiteRespond
    \/ Served

ServeSpec == ServeInit /\ [][ServeNext]_vars

(***************************************************************************)
(* What the claims speak of.                                               *)
(***************************************************************************)
Units == UnitsOf(cal[1], cal[2])

\* what the source holds for a unit
Reported(u) == Source(u[1], u[2], u[3])

Marked(u) == done_key(u[1], u[2], u[3]) \in done

\* the canonical paths of a listing's articles
ListedPaths(listing) ==
    {CanonicalPath(listing.elements[i]) : i \in 1..Len(listing.elements)}

BusyPaths == ListedPaths(BusyMonth)

\* the paths the source's articles of a unit are stored under
PathsOf(u) ==
    IF Reported(u) = BusyMonth THEN BusyPaths ELSE ListedPaths(Reported(u))

\* what an index key says of its record: the site code and the path suffix
KeyId(k) == <<k[1], SubSeq(k, 10, Len(k))>>

\* the same of a canonical path
PathId(p) ==
    LET parts == split_once(p, SLASH)
    IN  <<site_code(parts[1]), parts[2]>>

\* the site each code of site_code stands for
SiteNames ==
    [c \in 0..9 |->
        CASE c = 0 -> STR_english
          [] c = 1 -> STR_mandarin
          [] c = 2 -> STR_cantonese
          [] c = 3 -> STR_burmese
          [] c = 4 -> STR_korean
          [] c = 5 -> STR_lao
          [] c = 6 -> STR_khmer
          [] c = 7 -> STR_tibetan
          [] c = 8 -> STR_uyghur
          [] c = 9 -> STR_vietnamese]

DbIds == {PathId(p) : p \in DOMAIN db}
IndexIds == {KeyId(k) : k \in index}

\* C1: a unit that has its completion marker either had no article at the
\* source, or has every article the source reported for it in the primary
\* partition, under the article's canonical path.
C1_MarkerImpliesPersisted ==
    \A u \in Units :
        Marked(u) =>
            \/ Reported(u).count = 0
            \/ PathsOf(u) \subseteq DOMAIN db

\* C1's case: a month of several pages has its marker, after a restart
C1_Witness ==
    \E u \in Units :
        /\ Marked(u)
        /\ Reported(u).count > SIZE
        /\ runs > 1

\* C2: every key of the index partition has a record in the primary
\* partition whose canonical path is the site of the key's code followed by
\* the key's path suffix.
C2_IndexHasPrimary ==
    \A k \in index :
        /\ Len(k) >= 9
        /\ k[1] \in DOMAIN SiteNames
        /\ (SiteNames[k[1]] \o <<SLASH>> \o SubSeq(k, 10, Len(k))) \in DOMAIN db

\* C2's case: a run was killed or failed after index entries were written
C2_Witness ==
    /\ Cardinality(index) > SIZE
    /\ pc \in {"killed", "panic", "exit_err"}
    /\ runs > 1

\* C3: the index entries and the primary records are in one-to-one
\* correspondence: every record has exactly one index entry and every entry
\* exactly one record.
C3_OneToOne ==
    /\ IndexIds = DbIds
    /\ Cardinality(index) = Cardinality(IndexIds)
    /\ Cardinality(DOMAIN db) = Cardinality(DbIds)

\* C4, as claimed: a call for a unit whose earlier call returned Ok returns
\* at the marker check, with no request to the source and no write.
C4_SecondCallIsNoOp ==
    [][(pc = "call" /\ Unit \in returned /\ pc' = "ret")
          => (fetched' = <<>> /\ store' = store /\ files' = files)]_vars

\* C4, amended: such a call writes nothing and is over in one step; it
\* asks the source nothing when the marker is there, and asks again only for
\* a month that was empty and is of MarkerYear or later.
C4_SecondCallWritesNothing ==
    [][(pc = "call" /\ Unit \in returned)
          => /\ store' = store
             /\ files' = files
             /\ pc' \in Running => pc' = "ret"
             /\ Marked(Unit) => fetched' = <<>>
             /\ fetched' # <<>> =>
                    (Reported(Unit).count = 0 /\ year >= MarkerYear)]_vars

\* C4's case: a later run's call for a unit of articles returned at the
\* marker check
C4_Witness ==
    /\ pc = "ret"
    /\ runs > 1
    /\ fetched = <<>>
    /\ Unit \in returned
    /\ Reported(Unit).count > 0

\* C5, as claimed: the batch of a unit commits exactly once, whatever the
\* kills and restarts.
C5_CommittedOnce == \A u \in Units : commits[u] <= 1

\* C5, amended: once a unit has its marker, no run requests or commits it
\* again.
C5_MarkedNeverAgain ==
    [][\A u \in Units :
          Marked(u) =>
             /\ commits'[u] = commits[u]
             /\ Unit = u => fetched' \in {fetched, <<>>}]_vars

\* C5's case: a unit committed twice before it got its marker, and a third
\* run passed it by
C5_Witness ==
    /\ pc = "ret"
    /\ fetched = <<>>
    /\ Marked(Unit)
    /\ commits[Unit] = 2

\* C6: the requests of a call are at offsets 0, SIZE, 2*SIZE, ... in that
\* order, and when the loop is left there have been ceil(count / SIZE) of
\* them and count records are held.
C6_PaginationExhausts ==
    /\ \A j \in 1..Len(fetched) : fetched[j] = (j - 1) * SIZE
    /\ (pc \in {"imgs", "mark"} \/ (pc = "ret" /\ count > 0)) =>
            /\ Len(items) = count
            /\ Len(fetched) = (count + SIZE - 1) \div SIZE

\* C6's case: 250 records in three requests
C6_Witness ==
    /\ pc = "imgs"
    /\ count = 250
    /\ Len(items) = 250
    /\ fetched = <<0, 100, 200>>

\* C7: a call that finds count = 0 writes nothing to the primary and index
\* partitions, and writes the marker exactly if the unit's year is before the
\* calendar year of the run.
C7_ZeroResultPolicy ==
    [][(pc = "call" /\ pc' = "ret" /\ fetched' = <<0>>)
          => /\ Reported(Unit).count = 0
             /\ db' = db
             /\ index' = index
             /\ (done_key(site, year, month) \in done') <=> (year < today)]_vars

\* C8: a step that returns the Err of a request leaves the three partitions
\* (and imgs/) as they were and the unit without a marker, and the first
\* request of every call is at offset 0.
C8_FetchErrorWritesNothing ==
    [][/\ (pc \in Running /\ pc' = "exit_err") =>
            /\ store' = store
            /\ files' = files
            /\ ~Marked(Unit)
            /\ Len(fetched') = Len(fetched) + 1
       /\ (pc = "call" /\ fetched' # <<>>) => fetched' = <<0>>]_vars

\* C8's case: a request after the first failed, over a store that is not empty
C8_Witness ==
    /\ pc = "exit_err"
    /\ Len(fetched) > 1
    /\ index # {}

\* C9: a step that writes a marker writes the marker of the unit in hand,
\* and unless the month was empty every page has been fetched and all its
\* records and index entries are already committed; a process that has
\* stopped, as on a failed commit, writes no marker.
C9_MarkerAfterCommit ==
    [][/\ done' # done =>
            /\ pc \in Running
            /\ done' = done \cup {done_key(site, year, month)}
            /\ \/ (Reported(Unit).count = 0 /\ fetched' = <<0>>)
               \/ /\ Len(items) = Reported(Unit).count
                  /\ Len(items) >= count
                  /\ PathsOf(Unit) \subseteq DOMAIN db
                  /\ BatchIndex({}, items) \subseteq index
                  /\ commits[Unit] >= 1
       /\ pc' \in Stopped => done' = done]_vars

\* C9's case: a marker follows the commit of a month of several pages, in a
\* run after one that stopped short of committing
C9_Witness ==
    /\ pc = "ret"
    /\ Marked(Unit)
    /\ Len(fetched) > 1
    /\ runs = 2
    /\ commits[Unit] = 1

\* C10: a failed image download leaves the call where it was, with the next
\* image in hand, and a call that returns after failed downloads has
\* committed every record and index entry of the unit and written its marker.
C10_ImageErrorsDoNotAbort ==
    /\ [][img_errs' > img_errs =>
             /\ pc = "imgs"
             /\ pc' = "imgs"
             /\ items' = items
             /\ imgs' = Tail(imgs)
             /\ store' = store]_vars
    /\ []((pc = "ret" /\ img_errs > 0) =>
             /\ Marked(Unit)
             /\ Unit \in returned
             /\ PathsOf(Unit) \subseteq DOMAIN db
             /\ BatchIndex({}, items) \subseteq index)

\* C10's case: every image download of a unit failed and the call returned
C10_Witness ==
    /\ pc = "ret"
    /\ img_errs = 3
    /\ Marked(Unit)
    /\ files = {}

\* the months 1998-01 to 2025-09, counted from 0
ClaimedMonths == (2025 * 12 + 9) - (1998 * 12 + 1) + 1

\* every site's months in ascending order, one site after the other
ClaimedCalls ==
    [i \in 1..(Len(SITES) * ClaimedMonths) |->
        LET k == 1998 * 12 + ((i - 1) % ClaimedMonths)
        IN  <<SITES[((i - 1) \div ClaimedMonths) + 1], k \div 12, (k % 12) + 1>>]

\* C11: in a run without errors the calls of fetch_articles are, in order,
\* those of every site's months from 1998-01 to 2025-09, each once, the
\* months of a site ascending and one site after the other; a call begins
\* only when the one before it has returned.
C11_EveryUnitOnceInOrder ==
    /\ [](called = SubSeq(ClaimedCalls, 1, Len(called)))
    /\ [](pc = "exit_ok" => called = ClaimedCalls)
    /\ [][called' # called =>
             /\ pc = "call"
             /\ called' = Append(called, Unit)
             /\ called # <<>> => called[Len(called)] \in returned]_vars

\* C11's case: the run has ended, its first unit passed at the marker check
\* and its busiest committed
C11_Witness ==
    /\ pc = "exit_ok"
    /\ Len(called) = Len(SITES) * ClaimedMonths
    /\ done_key(SITES[1], 1998, 1) \in done
    /\ commits[<<"rfa-mandarin", 2023, 11>>] = 1

\* the entries of the index under the code of the requested site
SiteEntries == {k \in index : k[1] = site_code(req.key)}

\* the path an entry of the requested site stands for
EntryPath(k) == req.key \o <<SLASH>> \o SubSeq(k, 10, Len(k))

\* how many keys of S come before k when the greatest comes first
Above(S, k) == Cardinality({k2 \in S : LexLess(k, k2)})

\* the index key the spider writes for a record
KeyOf(r) == index_key(CanonicalPath(r), r.display_date)

\* the response to a request for a site's list has gone out
Listed == rpc = "list" /\ req.handler = "site"

\* the size of the page at a position among n entries
PageLen(n, page) ==
    IF 20 * page >= n THEN 0
    ELSE IF n - 20 * page < 20 THEN n - 20 * page ELSE 20

\* C12: when every index entry of the site has its primary record, the list
\* of a page holds the records of the entries at positions 20*page up to
\* min(20*page + 20, N) of the descending key order, and nothing when
\* 20*page >= N; of 45 entries page 0 holds 20, page 2 holds 5, page 3 none.
C12_Windowing ==
    LET all == SiteEntries
    IN  (Listed /\ \A k \in all : EntryPath(k) \in DOMAIN db) =>
        /\ Len(resp) = PageLen(Cardinality(all), req.page)
        /\ \A j \in 1..Len(resp) :
              /\ KeyOf(resp[j]) \in all
              /\ Above(all, KeyOf(resp[j])) = 20 * req.page + j - 1
        /\ Cardinality(all) = 45 =>
              /\ req.page = 0 => Len(resp) = 20
              /\ req.page = 2 => Len(resp) = 5
              /\ req.page = 3 => Len(resp) = 0

\* C12's case: the last 5 of 45 entries
C12_Witness ==
    /\ Listed
    /\ \A k \in SiteEntries : EntryPath(k) \in DOMAIN db
    /\ Cardinality(SiteEntries) = 45
    /\ req.page = 2
    /\ Len(resp) = 5

\* the display timestamps of a list come newest first
NewestFirst(list) ==
    \A i, j \in 1..Len(list) :
        i < j => list[i].display_date[1] >= list[j].display_date[1]

\* C13: whatever the spider has stored, the records of a page of a site's
\* list come in non-increasing order of their display timestamps, and no
\* record of a page is newer than a record of the page before it.
C13_NewestFirst ==
    /\ Listed => NewestFirst(resp)
    /\ \A name \in SiteParams, p \in 0..(MaxPage - 1) :
          NewestFirst(site_items(name, p) \o site_items(name, p + 1))

\* the articles the source holds for a unit
ArticlesOf(u) == {Reported(u).elements[i] : i \in 1..Len(Reported(u).elements)}

\* the index entries of a unit
IdxOf(u) == {KeyOf(e) : e \in ArticlesOf(u)}

\* a record a unit wrote is what its path holds
Holds(e) ==
    /\ CanonicalPath(e) \in DOMAIN db
    /\ db[CanonicalPath(e)] = e

\* C16: at every point of a run of the spider with a reader at work, a unit
\* has either all its index entries and a record under each of its paths in
\* the store, or no index entry and none of its records; a step that writes
\* to the primary or the index partition writes the whole batch of the unit
\* to both; and every entry the reader took from the index, whenever it did,
\* is still in the index and resolves to a record when the reader looks it up.
C16_NoPartialUnit ==
    /\ [](\A u \in Units :
            \/ IdxOf(u) \subseteq index /\ PathsOf(u) \subseteq DOMAIN db
            \/ IdxOf(u) \cap index = {} /\ \A e \in ArticlesOf(u) : ~Holds(e))
    /\ [][(db' # db \/ index' # index) =>
             /\ db' = BatchDb(db, Reported(Unit).elements)
             /\ index' = index \cup IdxOf(Unit)]_vars
    /\ [](rpc = "site" => \A i \in 1..Len(scan) :
                             /\ scan[i] \in index
                             /\ EntryPath(scan[i]) \in DOMAIN db)
    /\ [][(rpc = "site" /\ scan # <<>> /\ scan' # scan) =>
             resp' = Append(resp, db[EntryPath(Head(scan))])]_vars

\* C16's case: the reader is resolving the entries it took from the index
\* before the second batch of the site committed
C16_Witness ==
    /\ rpc = "site"
    /\ req.page = 0
    /\ scan # <<>>
    /\ resp # <<>>
    /\ Above(SiteEntries, KeyOf(resp[1])) > 0
    /\ commits[<<"rfa-mandarin", 2023, 12>>] = 1

\* the keys of the primary partition that begin with the requested key
SectionKeys == {k \in DOMAIN db : StartsWith(k, req.key)}

\* the response to a request for a path has gone out
Paged == req.handler = "page" /\ rpc \in {"article", "list", "not_found"}

\* the section list: the records of the keys at positions 20*page up to
\* 20*page + 20 of the descending order of the keys that begin with the key
SectionListed ==
    /\ rpc = "list"
    /\ LET all == SectionKeys
       IN  /\ Len(resp) = PageLen(Cardinality(all), req.page)
           /\ \A j \in 1..Len(resp) :
                 \E k \in all :
                     /\ Above(all, k) = 20 * req.page + j - 1
                     /\ resp[j] = db[k]

\* C15, as claimed: the response is the one record exactly when the primary
\* partition holds a record under the path, and the section list otherwise.
C15_PointOrSection ==
    Paged =>
        IF req.key \in DOMAIN db
        THEN rpc = "article" /\ resp = <<db[req.key]>>
        ELSE SectionListed

\* C15, amended: the section list is the response when the path holds no
\* record and has a '/' in it; a path with no record and no '/' is answered
\* 404 Not Found.
C15_PointSectionOrNotFound ==
    Paged =>
        IF req.key \in DOMAIN db
        THEN rpc = "article" /\ resp = <<db[req.key]>>
        ELSE IF \E i \in 1..Len(req.key) : req.key[i] = SLASH
        THEN SectionListed
        ELSE rpc = "not_found" /\ resp = <<>>

\* C15's case: the one record of a path that other keys begin with
C15_Witness ==
    /\ Paged
    /\ rpc = "article"
    /\ \E k \in SectionKeys : k # req.key

\* the entries of the requested site at the positions of the requested page
WindowEntries ==
    LET all == SiteEntries
    IN  {k \in all :
            /\ Above(all, k) >= 20 * req.page
            /\ Above(all, k) < 20 * req.page + 20}

\* those of them that have their record
Resolved == {k \in WindowEntries : EntryPath(k) \in DOMAIN db}

\* C17: a round of the loop that meets an entry without a record goes on to
\* the next entry with the list as it was, and the list that goes out holds
\* the records of the other entries of the window, in the window's order.
C17_DanglingSkipped ==
    /\ [][(rpc = "site" /\ scan # <<>>) =>
             /\ rpc' = "site"
             /\ scan' = Tail(scan)
             /\ resp' = IF EntryPath(Head(scan)) \in DOMAIN db
                        THEN Append(resp, db[EntryPath(Head(scan))])
                        ELSE resp]_vars
    /\ [](Listed =>
             LET there == Resolved
             IN  /\ Len(resp) = Cardinality(there)
                 /\ \A j \in 1..Len(resp) :
                       \E k \in there :
                           /\ Above(there, k) = j - 1
                           /\ resp[j] = db[EntryPath(k)])

\* C17's case: a window of 20 entries, some without a record
C17_Witness ==
    /\ Listed
    /\ Cardinality(WindowEntries) = 20
    /\ Len(resp) > 0
    /\ Len(resp) < 20
    /\ StrayKey \in WindowEntries

\* C14: of two keys that index_key returned for one site, the one of the
\* earlier timestamp comes first in the byte order of the keys, whatever
\* the paths and whether or not the timestamps are before 1970.
C14_KeyOrderIsTimeOrder ==
    (arg.fn = "index_key" /\ Len(out) = 2) =>
        LET t1 == arg.calls[1][2][1]
            t2 == arg.calls[2][2][1]
        IN  (out[1][1] = out[2][1] /\ t1 < t2) => LexLess(out[1], out[2])

\* the URL's last path segment: what follows the last '/' of the URL cut
\* at its first '?'
FinalSegment(url) ==
    LET qs == {i \in 1..Len(url) : url[i] = QMARK}
        path == IF qs = {} THEN url ELSE SubSeq(url, 1, Min(qs) - 1)
        ss == {i \in 1..Len(path) : path[i] = SLASH}
    IN  IF ss = {} THEN path ELSE SubSeq(path, Max(ss) + 1, Len(path))

\* C19: get_filename_from_url returns the last path segment of the URL
\* without the query string, also when the query string holds a '/' or a
\* second '?'; for https://x.org/a/b/c.jpg?w=10 it returns c.jpg.
C19_FinalSegmentNoQuery ==
    (arg.fn = "get_filename_from_url" /\ Len(out) = 1) =>
        /\ out[1] = FinalSegment(arg.calls[1])
        /\ arg.calls[1] = <<104, 116, 116, 112, 115, 58, 47, 47, 120, 46, 111,
                            114, 103, 47, 97, 47, 98, 47, 99, 46, 106, 112,
                            103, 63, 119, 61, 49, 48>>
              => out[1] = <<99, 46, 106, 112, 103>>

\* the file name under imgs/ of the i-th download the unit has begun
GetName(gets, i) == get_filename_from_url(gets[i][1])

\* C18: a download is begun only for a file name that imgs/ does not hold,
\* and a file is written only by a download that succeeds, under a name
\* imgs/ did not hold; imgs/ loses no file, so a later run of the unit
\* downloads nothing that was stored before; and of the downloads of one
\* unit under one file name, none follows one that succeeded.
C18_ExistingNeverFetched ==
    /\ [][(img_gets' # img_gets /\ img_gets' # <<>>) =>
            /\ Len(img_gets') = Len(img_gets) + 1
            /\ SubSeq(img_gets', 1, Len(img_gets)) = img_gets
            /\ GetName(img_gets', Len(img_gets')) \notin files]_vars
    /\ [][files' # files =>
            /\ Len(img_gets') = Len(img_gets) + 1
            /\ img_gets'[Len(img_gets')][2] = "ok"
            /\ GetName(img_gets', Len(img_gets')) \notin files
            /\ files' = files \cup {GetName(img_gets', Len(img_gets'))}]_vars
    /\ [][files \subseteq files']_vars
    /\ [](\A i, j \in 1..Len(img_gets) :
            (i < j /\ GetName(img_gets, i) = GetName(img_gets, j))
                => img_gets[i][2] # "ok")

\* a later run has passed the images of the busy month: b.jpg was stored by
\* an earlier run and is not fetched, a.jpg is fetched for the first of the
\* two URLs that name it and not for the second
C18_Witness ==
    /\ runs > 1
    /\ pc = "imgs"
    /\ imgs = <<>>
    /\ count = BusyCount
    /\ img_gets = <<<<URL_a1, "ok">>>>
    /\ get_filename_from_url(URL_a1) = get_filename_from_url(URL_a2)
    /\ get_filename_from_url(URL_b) \in files

\* the elements of the page the source serves at an offset, for the unit
\* in hand; extract makes a record of each
PageAt(offset) ==
    Response(Source(site, year, month), offset).content_elements

\* every page of the unit in hand at an offset below its count holds a record
Feeds ==
    {offset \in 0..(Source(site, year, month).count - 1) :
        PageAt(offset) = <<>>} = {}

\* the loop is at a page that adds no record
Starved == pc = "page" /\ PageAt(NextOffset(items)) = <<>>

\* C20: the pagination loop goes on exactly while the reported count exceeds
\* the number of records in hand, and leaves, for the images, at the page
\* that reaches the count.  When every page below the count holds a record
\* the loop ends; at a page that adds nothing the loop stays for ever, and
\* the unit gets neither a batch nor a marker.
C20_PaginationEndsAtCount ==
    /\ [](pc = "page" => count > Len(items))
    /\ [](pc = "imgs" => Len(items) >= count)
    /\ [][(pc = "page" /\ pc' # "page") =>
            (pc' = "imgs" /\ Len(items) < count /\ Len(items') >= count)]_vars
    /\ ((pc = "page" /\ Feeds) ~> (pc = "imgs"))
    /\ [][Starved =>
            (pc' = "page" /\ items' = items /\ store' = store
                /\ commits' = commits)]_vars
    /\ [](Starved => [](/\ Starved
                        /\ commits[Unit] = 0
                        /\ done_key(site, year, month) \notin done))

\* the source reports the busy month's count and has stopped adding records:
\* the loop has asked MaxFetches times and is asking again
C20_Witness ==
    /\ catalog = "stuck"
    /\ pc = "page"
    /\ Len(items) = BusyCount - Shortfall
    /\ count = BusyCount
    /\ Len(fetched) = MaxFetches
    /\ Starved
    /\ commits[Unit] = 0

\* where a unit stands in main's order: the sites as SITES has them, the
\* months of a site ascending
UnitRank(u) ==
    ((CHOOSE i \in 1..Len(SITES) : SITES[i] = u[1]) * 100000) + (u[2] * 12) + u[3]

\* C21: when a call of fetch_articles has returned an Err the run is over:
\* the failed unit is the last one called, every unit called before it
\* comes before it in main's order and has returned Ok, with its marker and
\* its records in place when the source held articles for it; nothing is
\* called and nothing is written until the spider is started again, and
\* the failure itself has written nothing.
C21_FirstFailureHalts ==
    /\ [](pc = "exit_err" =>
            /\ called # <<>>
            /\ called[Len(called)] = Unit
            /\ \A i \in 1..(Len(called) - 1) :
                 /\ UnitRank(called[i]) < UnitRank(called[i + 1])
                 /\ called[i] \in returned
                 /\ Reported(called[i]).count > 0 =>
                        /\ Marked(called[i])
                        /\ PathsOf(called[i]) \subseteq DOMAIN db)
    /\ [][pc = "exit_err" =>
            /\ runs' = runs + 1
            /\ called' = <<>>
            /\ store' = store]_vars
    /\ [][(pc # "exit_err" /\ pc' = "exit_err") => store' = store]_vars

\* rfa-mandarin's second month has failed after the busy month was
\* committed and marked; a month and a site are still to come
C21_Witness ==
    /\ pc = "exit_err"
    /\ Len(called) = 2
    /\ Reported(called[1]).count > SIZE
    /\ Marked(called[1])
    /\ commits[called[1]] > 0
    /\ site_i < Len(SITES)
    /\ DateLE(MonthAfter(start_date), cal[2])

\* the site a canonical path belongs to: what comes before its first '/'
NameOf(path) == split_once(path, SLASH)[1]

\* the names of the ten sites site_code knows
KnownNames == {SiteNames[c] : c \in DOMAIN SiteNames}

\* the records on the pages 0..MaxPage of a site's list
OnSomePage(name) ==
    UNION {LET list == site_items(name, page)
           IN  {list[j] : j \in 1..Len(list)} : page \in 0..MaxPage}

\* C22: every record in the primary partition under a path of one of the
\* ten sites has its index key in the index, under the code of that site,
\* and the site's name, a '/' and the key's bytes past the ninth are the
\* record's path; the record is on one of the pages of its site's list;
\* and every record a list of a site returns has a path of that site.
C22_CompleteAndIsolated ==
    /\ [](\A name \in KnownNames :
            LET all == OnSomePage(name)
            IN  \A path \in DOMAIN db :
                    NameOf(path) = name =>
                        LET k == KeyOf(db[path])
                        IN  /\ k \in index
                            /\ k[1] = site_code(name)
                            /\ name \o <<SLASH>> \o SubSeq(k, 10, Len(k)) = path
                            /\ db[path] \in all)
    /\ [](Listed =>
            \A j \in 1..Len(resp) :
                /\ NameOf(CanonicalPath(resp[j])) = req.key
                /\ CanonicalPath(resp[j]) \in DOMAIN db)

\* rfa-korean's list has gone out with its two records while the store
\* holds the records of rfa-mandarin beside them
C22_Witness ==
    /\ Listed
    /\ req.key = STR_korean
    /\ Len(resp) = 2
    /\ Cardinality({path \in DOMAIN db : NameOf(path) = STR_mandarin}) > PAGE
    /\ Cardinality({k \in index : k[1] = site_code(STR_mandarin)}) > PAGE

====
